---- MODULE Spec2Model ----
(***************************************************************************)
(* gitlabfs: the startup sequence of main (main.go), the conversion of a   *)
(* remote project (gitlab/project.go), the user-content cache of the       *)
(* gitlab client (gitlabClient.FetchUserContent) and the job queue of the  *)
(* git client that main configures.                                        *)
(***************************************************************************)
EXTENDS Integers, Sequences, FiniteSets, TLC

\* ------------------------------------------------------------------ bounds
MaxQueueSize == 2
MaxProjectID == 2
MaxPages == 2
NumCallers == 2
NumRepos == 3
NumWorkers == 2

\* --------------------------------------------------------------- constants
PullMethodHTTP == "http"
PullMethodSSH == "ssh"
DefaultPullMethod == "http"
CloneInit == "CloneInit"
CloneClone == "CloneClone"
FirstPage == 1

VARIABLES
    \* main
    mainPc, config, args, gitClientParam, gitClient, gitlabClientParam,
    gitlabClient, fsStarted, exitCode, output,
    \* the last remote project converted and its result
    gitlabProject, project,
    \* the remote's project listing per user, and each User's content field
    remote, userContent,
    \* one goroutine of the filesystem per FetchUserContent call
    pc, user, content, page, requested, ret,
    \* the git client's job queue, its workers and the state of each repository
    repoState, queue, worker, scheduled, resolved

mainVars == <<mainPc, config, args, gitClientParam, gitClient, gitlabClientParam,
              gitlabClient, fsStarted, exitCode, output>>
convVars == <<gitlabProject, project>>
fetchVars == <<remote, userContent, pc, user, content, page, requested, ret>>
queueVars == <<repoState, queue, worker, scheduled, resolved>>
vars == <<mainVars, convVars, fetchVars, queueVars>>

\* ----------------------------------------------------------- configuration
PullMethods == {PullMethodHTTP, PullMethodSSH, "ftp"}
OnClones == {"init", "clone", "bare"}
QueueSizes == 0 .. MaxQueueSize
GitlabURLs == {"https://gitlab.com", ":bad"}
Mountpoints == {"", "/mnt"}
Args == {<<>>, <<"/arg">>}
Tokens == {"", "tok"}

\* The Config struct after loadConfig: the fields main reads.
Configs ==
    [Mountpoint : Mountpoints,
     URL : GitlabURLs,
     Token : Tokens,
     IncludeCurrentUser : BOOLEAN,
     PullMethod : PullMethods,
     OnClone : OnClones,
     AutoPull : BOOLEAN,
     QueueSize : QueueSizes,
     QueueWorkerCount : {NumWorkers}]

\* net/url.Parse as makeGitConfig uses it: an error or the parsed URL.
urlParse(rawurl) ==
    IF rawurl = ":bad"
    THEN [err |-> "parse \":bad\": missing protocol scheme", url |-> ""]
    ELSE [err |-> "", url |-> rawurl]

\* makeGitlabConfig without the pull_method check.
makeGitlabConfig_NoCheck(cfg) ==
    [err |-> "",
     param |-> <<[PullMethod |-> cfg.PullMethod,
                  IncludeCurrentUser |-> cfg.IncludeCurrentUser /\ cfg.Token # ""]>>]

makeGitlabConfig(cfg) ==
    IF cfg.PullMethod # PullMethodHTTP /\ cfg.PullMethod # PullMethodSSH
    THEN [err |-> "pull_method must be either \"http\" or \"ssh\"", param |-> <<>>]
    ELSE [err |-> "",
          param |-> <<[PullMethod |-> cfg.PullMethod,
                       IncludeCurrentUser |-> cfg.IncludeCurrentUser /\ cfg.Token # ""]>>]

\* makeGitConfig handing the git client a queue one job deeper than configured.
makeGitConfig_DeeperQueue(cfg) ==
    LET parsed == urlParse(cfg.URL) IN
    IF parsed.err # ""
    THEN [err |-> parsed.err, param |-> <<>>]
    ELSE IF cfg.OnClone \notin {"init", "clone"}
    THEN [err |-> "on_clone must be either \"init\" or \"clone\"", param |-> <<>>]
    ELSE [err |-> "",
          param |-> <<[RemoteURL |-> parsed.url,
                       CloneMethod |-> IF cfg.OnClone = "init" THEN CloneInit ELSE CloneClone,
                       AutoPull |-> cfg.AutoPull,
                       QueueSize |-> cfg.QueueSize + 1,
                       QueueWorkerCount |-> cfg.QueueWorkerCount]>>]

makeGitConfig(cfg) ==
    LET parsed == urlParse(cfg.URL) IN
    IF parsed.err # ""
    THEN [err |-> parsed.err, param |-> <<>>]
    ELSE IF cfg.OnClone \notin {"init", "clone"}
    THEN [err |-> "on_clone must be either \"init\" or \"clone\"", param |-> <<>>]
    ELSE [err |-> "",
          param |-> <<[RemoteURL |-> parsed.url,
                       CloneMethod |-> IF cfg.OnClone = "init" THEN CloneInit ELSE CloneClone,
                       AutoPull |-> cfg.AutoPull,
                       QueueSize |-> cfg.QueueSize,
                       QueueWorkerCount |-> cfg.QueueWorkerCount]>>]

\* ----------------------------------------------------- project conversion
PathNames == <<"a", "b", "c", "d">>
Paths == {PathNames[i] : i \in 1 .. MaxProjectID}
Branches == {"", "main"}
SSHURL(id) == <<"ssh", id>>
HTTPURL(id) == <<"http", id>>

\* The fields of a go-gitlab Project that the conversion reads.
GitlabProjects ==
    {[ID |-> id, Path |-> p, DefaultBranch |-> b,
      SSHURLToRepo |-> SSHURL(id), HTTPURLToRepo |-> HTTPURL(id)] :
        id \in 1 .. MaxProjectID, p \in Paths, b \in Branches}

\* The conversion without the "master" fallback.
newProjectFromGitlabProject_NoFallback(c, gp) ==
    [ID |-> gp.ID,
     Name |-> gp.Path,
     DefaultBranch |-> gp.DefaultBranch,
     CloneURL |-> IF c.PullMethod = PullMethodSSH THEN gp.SSHURLToRepo ELSE gp.HTTPURLToRepo]

newProjectFromGitlabProject(c, gp) ==
    [ID |-> gp.ID,
     Name |-> gp.Path,
     DefaultBranch |-> IF gp.DefaultBranch = "" THEN "master" ELSE gp.DefaultBranch,
     CloneURL |-> IF c.PullMethod = PullMethodSSH THEN gp.SSHURLToRepo ELSE gp.HTTPURLToRepo]

\* ------------------------------------------- idle state of the git queue
Repos == 1 .. NumRepos
Workers == 1 .. NumWorkers

NoResolve == [project |-> 0, outcome |-> ""]

QueueIdle ==
    /\ repoState = [p \in Repos |-> "Absent"]
    /\ queue = <<>>
    /\ worker = [w \in Workers |-> <<>>]
    /\ scheduled = {}
    /\ resolved = NoResolve

\* ------------------------------------------------------ FetchUserContent
\* The users whose content the filesystem lists. Calls for different users
\* share no state: two users show a call for one leaving the other alone.
Users == {1, 2}
Callers == 1 .. NumCallers

PathIndex(name) == CHOOSE i \in 1 .. Len(PathNames) : PathNames[i] = name

\* A user's projects, by id. Up to a renaming of paths: a project has the path
\* of an earlier one (a name collision) or the first path not yet used; and
\* the first project is the one with no default branch.
ProjectLists ==
    UNION {{s \in [1 .. n -> GitlabProjects] :
              \A i \in 1 .. n :
                /\ s[i].ID = i
                /\ s[i].DefaultBranch = (IF i = 1 THEN "" ELSE "main")
                /\ \/ \E j \in 1 .. i - 1 : s[j].Path = s[i].Path
                   \/ PathIndex(s[i].Path) =
                        Cardinality({s[j].Path : j \in 1 .. i - 1}) + 1} :
             n \in 0 .. MaxProjectID}

\* The remote serves a project list in pages of one size, the last one
\* possibly shorter, over at most MaxPages pages (the request asks for
\* PerPage: 1000; the remote decides the size).
Paginate(s) ==
    IF s = <<>> THEN {<< <<>> >>}
    ELSE {[i \in 1 .. (Len(s) + sz - 1) \div sz |->
              SubSeq(s, (i - 1) * sz + 1,
                     IF i * sz < Len(s) THEN i * sz ELSE Len(s))] :
            sz \in {z \in 1 .. Len(s) : (Len(s) + z - 1) \div z <= MaxPages}}

Remotes == UNION {Paginate(s) : s \in ProjectLists}

\* c.client.Projects.ListUserProjects(uid, opt) when the request succeeds.
ListUserProjects(uid, pg) ==
    [projects |-> remote[uid][pg],
     CurrentPage |-> pg,
     TotalPages |-> Len(remote[uid]),
     NextPage |-> IF pg < Len(remote[uid]) THEN pg + 1 ELSE 0]

NoRet == [content |-> <<>>, err |-> ""]

FetchIdle ==
    /\ remote = [u \in Users |-> <<>>]
    /\ userContent = [u \in Users |-> <<>>]
    /\ pc = [c \in Callers |-> "idle"]
    /\ user = [c \in Callers |-> 0]
    /\ content = [c \in Callers |-> <<>>]
    /\ page = [c \in Callers |-> 0]
    /\ requested = [c \in Callers |-> <<>>]
    /\ ret = [c \in Callers |-> NoRet]

\* content.Projects[project.Name] = &project
Put(m, k, v) == [x \in DOMAIN m \cup {k} |-> IF x = k THEN v ELSE m[x]]

\* for _, gitlabProject := range gitlabProjects { ... }
RECURSIVE AddProjects(_, _, _)
AddProjects(c, m, gps) ==
    IF gps = <<>> THEN m
    ELSE LET p == newProjectFromGitlabProject(c, Head(gps))
         IN  AddProjects(c, Put(m, p.Name, p), Tail(gps))

\* The loop leaving one page early.
LastPage_OneEarly(response) == response.CurrentPage + 1 >= response.TotalPages

\* if response.CurrentPage >= response.TotalPages { break }
LastPage(response) == response.CurrentPage >= response.TotalPages

\* The state once the filesystem serves: the gitlab client main constructed
\* from a configuration with one of the pull methods given and no token.
FetchInitFor(methods) ==
    /\ mainPc = "serving"
    /\ config = <<>>
    /\ args = <<>>
    /\ gitClientParam = <<>>
    /\ gitClient = TRUE
    /\ \E cfg \in Configs :
        /\ makeGitConfig(cfg).err = ""
        /\ makeGitlabConfig(cfg).err = ""
        /\ cfg.PullMethod \in methods
        /\ cfg.Token = ""
        /\ gitlabClientParam = makeGitlabConfig(cfg).param
    /\ gitlabClient = TRUE
    /\ fsStarted = TRUE
    /\ exitCode = 0
    /\ output = ""
    /\ gitlabProject = <<>>
    /\ project = <<>>
    /\ remote = [u \in Users |-> <<>>]
    /\ userContent = [u \in Users |-> <<>>]
    /\ pc = [c \in Callers |-> "idle"]
    /\ user = [c \in Callers |-> 0]
    /\ content = [c \in Callers |-> <<>>]
    /\ page = [c \in Callers |-> 0]
    /\ requested = [c \in Callers |-> <<>>]
    /\ ret = [c \in Callers |-> NoRet]
    /\ QueueIdle

FetchInit == FetchInitFor(PullMethods)

\* The same under the default configuration, pull_method: http.
FetchInitDefault == FetchInitFor({DefaultPullMethod})

\* A request of the filesystem, served by its own goroutine, calls
\* FetchUserContent(user):
\* the check of user.content, then the new content.
Begin(c, u) ==
    /\ pc[c] = "idle"
    /\ user' = [user EXCEPT ![c] = u]
    /\ requested' = [requested EXCEPT ![c] = <<>>]
    /\ IF userContent[u] # <<>>
       THEN /\ ret' = [ret EXCEPT ![c] = [content |-> userContent[u], err |-> ""]]
            /\ pc' = [pc EXCEPT ![c] = "returned"]
            /\ UNCHANGED <<content, page>>
       ELSE /\ content' = [content EXCEPT ![c] = <<[id |-> c, Projects |-> <<>>]>>]
            /\ page' = [page EXCEPT ![c] = FirstPage]
            /\ pc' = [pc EXCEPT ![c] = "list"]
            /\ UNCHANGED ret
    /\ IF remote[u] = <<>>
       THEN \E r \in Remotes : remote' = [remote EXCEPT ![u] = r]
       ELSE UNCHANGED remote
    /\ UNCHANGED <<userContent, mainVars, convVars, queueVars>>

\* A failed page request that leaves the pages read so far in user.content.
ListFailed_KeepsPartial(c) ==
    /\ ret' = [ret EXCEPT ![c] = [content |-> <<>>,
                                  err |-> "failed to fetch projects in gitlab"]]
    /\ pc' = [pc EXCEPT ![c] = "returned"]
    /\ content' = [content EXCEPT ![c] = <<>>]
    /\ userContent' = [userContent EXCEPT ![user[c]] = content[c]]
    /\ UNCHANGED page

\* A page request that fails: return nil, fmt.Errorf(...)
ListFailed(c) ==
    /\ ret' = [ret EXCEPT ![c] = [content |-> <<>>,
                                  err |-> "failed to fetch projects in gitlab"]]
    /\ pc' = [pc EXCEPT ![c] = "returned"]
    /\ content' = [content EXCEPT ![c] = <<>>]
    /\ UNCHANGED <<page, userContent>>

\* A page request that succeeds: its projects are added, then break or next page.
ListSucceeded(c) ==
    LET response == ListUserProjects(user[c], page[c])
        obj == content[c][1]
    IN  /\ content' = [content EXCEPT ![c] =
                <<[obj EXCEPT !.Projects =
                    AddProjects(gitlabClientParam[1], obj.Projects, response.projects)]>>]
        /\ IF LastPage(response)
           THEN pc' = [pc EXCEPT ![c] = "store"] /\ UNCHANGED page
           ELSE page' = [page EXCEPT ![c] = response.NextPage] /\ UNCHANGED pc
        /\ UNCHANGED <<ret, userContent>>

\* One iteration of the page loop.
ListPage(c, fail) ==
    /\ pc[c] = "list"
    /\ requested' = [requested EXCEPT ![c] = Append(@, page[c])]
    /\ IF fail THEN ListFailed(c) ELSE ListSucceeded(c)
    /\ UNCHANGED <<remote, user, mainVars, convVars, queueVars>>

\* user.content = content; return content, nil
Store(c) ==
    /\ pc[c] = "store"
    /\ userContent' = [userContent EXCEPT ![user[c]] = content[c]]
    /\ ret' = [ret EXCEPT ![c] = [content |-> content[c], err |-> ""]]
    /\ pc' = [pc EXCEPT ![c] = "returned"]
    /\ UNCHANGED <<remote, user, content, page, requested, mainVars, convVars, queueVars>>

FetchNext ==
    \/ \E c \in Callers, u \in Users : Begin(c, u)
    \/ \E c \in Callers : ListPage(c, TRUE)
    \/ \E c \in Callers : ListPage(c, FALSE)
    \/ \E c \in Callers : Store(c)

\* The remote never fails.
FetchNextNoFail ==
    \/ \E c \in Callers, u \in Users : Begin(c, u)
    \/ \E c \in Callers : ListPage(c, FALSE)
    \/ \E c \in Callers : Store(c)

\* ------------------------------------------ claims about FetchUserContent
RECURSIVE Flatten(_)
Flatten(pages) == IF pages = <<>> THEN <<>> ELSE Head(pages) \o Flatten(Tail(pages))

\* The remote projects of a user, over all pages.
RemoteProjects(u) == {Flatten(remote[u])[i] : i \in 1 .. Len(Flatten(remote[u]))}

DistinctNames(u) ==
    \A g1, g2 \in RemoteProjects(u) : g1.Path = g2.Path => g1 = g2

Entries(obj) == {obj.Projects[n] : n \in DOMAIN obj.Projects}

Succeeded(c) == pc[c] = "returned" /\ ret[c].err = ""

\* C3: of the calls for one user racing on an empty cache only one fetches
\* the remote listing, and every call that returned content holds the object
\* stored in the user's cache.
C3_FetchOnce ==
    /\ \A c1, c2 \in Callers :
        (c1 # c2 /\ pc[c1] \in {"list", "store"} /\ pc[c2] \in {"list", "store"})
            => user[c1] # user[c2]
    /\ \A c \in Callers : Succeeded(c) => ret[c].content = userContent[user[c]]

\* C4: the content a call returns has one entry per remote project of the
\* user, also when two remote projects have the same name.
C4_NoEntryDropped ==
    \A c \in Callers :
        Succeeded(c) =>
            /\ Cardinality(DOMAIN ret[c].content[1].Projects)
                 = Cardinality(RemoteProjects(user[c]))
            /\ {p.ID : p \in Entries(ret[c].content[1])}
                 = {gp.ID : gp \in RemoteProjects(user[c])}

\* C7: a failed page request returns an error and no content and leaves every
\* user's cache as it was; a cache is only ever set by a call that read every
\* page; a call on an empty cache starts at page 1 with empty content; a call
\* on a cached user returns the cached content without a request.
C7_FetchErrorContained ==
    [][\A c \in Callers :
        /\ (pc[c] = "list" /\ pc'[c] = "returned") =>
            /\ ret'[c].err # ""
            /\ ret'[c].content = <<>>
            /\ userContent' = userContent
        /\ (pc[c] = "idle" /\ pc'[c] = "list") =>
            /\ userContent[user'[c]] = <<>>
            /\ page'[c] = FirstPage
            /\ content'[c][1].Projects = <<>>
            /\ requested'[c] = <<>>
        /\ (pc[c] = "idle" /\ pc'[c] = "returned") =>
            /\ userContent[user'[c]] # <<>>
            /\ ret'[c] = [content |-> userContent[user'[c]], err |-> ""]
            /\ requested'[c] = <<>>
            /\ userContent' = userContent
        /\ \A u \in Users :
            userContent'[u] # userContent[u] =>
                \E d \in Callers :
                    /\ pc[d] = "store"
                    /\ user[d] = u
                    /\ Len(requested[d]) = Len(remote[u])
      ]_vars

\* A call failed on its second page while another user's content is cached.
C7_Witness ==
    \E c \in Callers :
        /\ pc[c] = "returned"
        /\ ret[c].err # ""
        /\ Len(requested[c]) >= 2
        /\ userContent[user[c]] = <<>>
        /\ \E u \in Users : u # user[c] /\ userContent[u] # <<>>

\* The pages a call has requested are 1, 2, ... in order, none twice; a call
\* that left the loop requested every page, and when the user's project names
\* are pairwise distinct its content is the conversion of every project of
\* every page.
PaginationComplete ==
    \A c \in Callers :
        /\ \A i \in 1 .. Len(requested[c]) : requested[c][i] = i
        /\ (pc[c] = "store" \/ (Succeeded(c) /\ requested[c] # <<>>)) =>
            LET u == user[c]
                obj == IF pc[c] = "store" THEN content[c][1] ELSE ret[c].content[1]
            IN  /\ Len(requested[c]) = Len(remote[u])
                /\ DistinctNames(u) =>
                     Entries(obj) =
                       {newProjectFromGitlabProject(gitlabClientParam[1], gp) :
                          gp \in RemoteProjects(u)}

\* C10: against a remote that never fails (and under the default pull
\* method), every FetchUserContent call requests pages 1, 2, ... until the
\* last, none twice, and returns for good with no error and with every
\* project of the user.
C10_PaginationTerminates ==
    /\ []PaginationComplete
    /\ <>[](\A c \in Callers : pc[c] \in {"idle", "returned"} /\ ret[c].err = "")

\* A call returned two differently named projects read over two pages.
C10_Witness ==
    \E c \in Callers :
        /\ Succeeded(c)
        /\ Len(requested[c]) >= 2
        /\ DistinctNames(user[c])
        /\ Cardinality(Entries(ret[c].content[1])) >= 2

\* ------------------------------------------------ the git client's queue
\* The state once the filesystem serves: the git client main constructed from
\* a configuration with a positive queue size (and, of the fields the queue
\* does not read, the defaults).
QueueInit ==
    /\ mainPc = "serving"
    /\ args = <<>>
    /\ \E cfg \in Configs :
        /\ cfg.Mountpoint # ""
        /\ cfg.PullMethod = PullMethodHTTP
        /\ cfg.IncludeCurrentUser
        /\ cfg.Token = ""
        /\ cfg.QueueSize > 0
        /\ makeGitConfig(cfg).err = ""
        /\ config = <<cfg>>
        /\ gitClientParam = makeGitConfig(cfg).param
        /\ gitlabClientParam = makeGitlabConfig(cfg).param
    /\ gitClient = TRUE
    /\ gitlabClient = TRUE
    /\ fsStarted = TRUE
    /\ exitCode = 0
    /\ output = ""
    /\ gitlabProject = <<>>
    /\ project = <<>>
    /\ FetchIdle
    /\ QueueIdle

QueueCapacity == gitClientParam[1].QueueSize

\* Enqueue that schedules a project already queued or executing once more.
Enqueue_NoDedup(p, kind) ==
    IF Len(queue) >= QueueCapacity
    THEN /\ resolved' = [project |-> p, outcome |-> "not_scheduled"]
         /\ UNCHANGED <<queue, scheduled>>
         /\ repoState' = [repoState EXCEPT ![p] = IF @ = "Absent" THEN "Unsynced" ELSE @]
    ELSE /\ resolved' = [project |-> p, outcome |-> "scheduled"]
         /\ queue' = Append(queue, [project |-> p, kind |-> kind])
         /\ scheduled' = scheduled \cup {p}
         /\ repoState' = [repoState EXCEPT ![p] = IF @ = "Ready" THEN @ ELSE "Pending"]

\* enqueue: a no-op for a project with a job queued or executing; a
\* non-blocking failure when the queue is full; else the job is queued.
Enqueue(p, kind) ==
    IF p \in scheduled
    THEN /\ resolved' = [project |-> p, outcome |-> "duplicate"]
         /\ UNCHANGED <<queue, scheduled, repoState>>
    ELSE IF Len(queue) >= QueueCapacity
    THEN /\ resolved' = [project |-> p, outcome |-> "not_scheduled"]
         /\ UNCHANGED <<queue, scheduled>>
         /\ repoState' = [repoState EXCEPT ![p] = IF @ = "Absent" THEN "Unsynced" ELSE @]
    ELSE /\ resolved' = [project |-> p, outcome |-> "scheduled"]
         /\ queue' = Append(queue, [project |-> p, kind |-> kind])
         /\ scheduled' = scheduled \cup {p}
         /\ repoState' = [repoState EXCEPT ![p] = IF @ = "Ready" THEN @ ELSE "Pending"]

\* resolveProject(p): a new, unsynced or failed project is enqueued (Initialize
\* or Clone, by on_clone); a ready one is enqueued for a Pull when auto_pull is
\* set and its worktree is clean on the default branch.
ResolveProject(p, clean) ==
    /\ IF repoState[p] = "Ready"
       THEN IF gitClientParam[1].AutoPull /\ clean
            THEN Enqueue(p, "Pull")
            ELSE /\ resolved' = [project |-> p, outcome |-> "ready"]
                 /\ UNCHANGED <<queue, scheduled, repoState>>
       ELSE Enqueue(p, IF gitClientParam[1].CloneMethod = CloneInit
                       THEN "Initialize" ELSE "Clone")
    /\ UNCHANGED <<worker, mainVars, convVars, fetchVars>>

\* A free worker takes the next job and calls the git adapter.
WorkerTake(w) ==
    /\ worker[w] = <<>>
    /\ queue # <<>>
    /\ worker' = [worker EXCEPT ![w] = <<Head(queue)>>]
    /\ queue' = Tail(queue)
    /\ repoState' = [repoState EXCEPT ![Head(queue).project] = "Syncing"]
    /\ UNCHANGED <<scheduled, resolved, mainVars, convVars, fetchVars>>

\* The git operation ends: Ready on success, Failed on an adapter error.
WorkerFinish(w, ok) ==
    /\ worker[w] # <<>>
    /\ repoState' = [repoState EXCEPT ![worker[w][1].project] =
                        IF ok THEN "Ready" ELSE "Failed"]
    /\ scheduled' = scheduled \ {worker[w][1].project}
    /\ worker' = [worker EXCEPT ![w] = <<>>]
    /\ UNCHANGED <<queue, resolved, mainVars, convVars, fetchVars>>

QueueNext ==
    \/ \E p \in Repos, clean \in BOOLEAN : ResolveProject(p, clean)
    \/ \E w \in Workers : WorkerTake(w)
    \/ \E w \in Workers, ok \in BOOLEAN : WorkerFinish(w, ok)

\* ---------------------------------------------- claims about the queue
JobsFor(p) ==
    Cardinality({i \in 1 .. Len(queue) : queue[i].project = p})
      + Cardinality({w \in Workers : worker[w] # <<>> /\ worker[w][1].project = p})

\* C1: for every project at most one job is queued or executing, so the git
\* adapter runs at most one operation on a project at a time.
C1_SingleJobInFlight ==
    \A p \in Repos :
        /\ JobsFor(p) <= 1
        /\ (repoState[p] \in {"Pending", "Syncing"} => JobsFor(p) = 1)
        /\ (p \in scheduled <=> JobsFor(p) = 1)

\* A project with a job in flight was resolved again and nothing was queued.
C1_Witness ==
    /\ resolved.outcome = "duplicate"
    /\ repoState[resolved.project] \in {"Pending", "Syncing"}
    /\ JobsFor(resolved.project) = 1

MainInit ==
    /\ mainPc = "loadConfig"
    /\ config = <<>>
    /\ args = <<>>
    /\ gitClientParam = <<>>
    /\ gitClient = FALSE
    /\ gitlabClientParam = <<>>
    /\ gitlabClient = FALSE
    /\ fsStarted = FALSE
    /\ exitCode = 0
    /\ output = ""
    /\ gitlabProject = <<>>
    /\ project = <<>>
    /\ FetchIdle
    /\ QueueIdle

Exit(code, msg) ==
    /\ mainPc' = "exit"
    /\ exitCode' = code
    /\ output' = msg

\* flag.Parse and loadConfig: the config file may fail to open or parse.
LoadConfig ==
    /\ mainPc = "loadConfig"
    /\ \E a \in Args : args' = a
    /\ \/ /\ Exit(1, "failed to open config file")
          /\ UNCHANGED config
       \/ /\ \E cfg \in Configs : config' = <<cfg>>
          /\ mainPc' = "mountpoint"
          /\ UNCHANGED <<exitCode, output>>
    /\ UNCHANGED <<gitClientParam, gitClient, gitlabClientParam, gitlabClient,
                   fsStarted, convVars, fetchVars, queueVars>>

Mountpoint ==
    IF Len(args) = 1 THEN args[1] ELSE config[1].Mountpoint

ConfigureMountpoint ==
    /\ mainPc = "mountpoint"
    /\ IF Mountpoint = ""
       THEN Exit(2, "Mountpoint is not configured in config file and missing from command-line arguments")
       ELSE mainPc' = "makeGitConfig" /\ UNCHANGED <<exitCode, output>>
    /\ UNCHANGED <<config, args, gitClientParam, gitClient, gitlabClientParam,
                   gitlabClient, fsStarted, convVars, fetchVars, queueVars>>

\* gitClientParam, err := makeGitConfig(config); git.NewClient(*gitClientParam)
CreateGitClient ==
    /\ mainPc = "makeGitConfig"
    /\ LET r == makeGitConfig(config[1]) IN
       IF r.err # ""
       THEN Exit(1, r.err) /\ UNCHANGED <<gitClientParam, gitClient>>
       ELSE /\ gitClientParam' = r.param
            /\ gitClient' = TRUE
            /\ mainPc' = "makeGitlabConfig"
            /\ UNCHANGED <<exitCode, output>>
    /\ UNCHANGED <<config, args, gitlabClientParam, gitlabClient, fsStarted, convVars, fetchVars, queueVars>>

\* gitlabClientParam, err := makeGitlabConfig(config); gitlab.NewClient(...)
CreateGitlabClient ==
    /\ mainPc = "makeGitlabConfig"
    /\ LET r == makeGitlabConfig(config[1]) IN
       IF r.err # ""
       THEN Exit(1, r.err) /\ UNCHANGED <<gitlabClientParam, gitlabClient>>
       ELSE /\ gitlabClientParam' = r.param
            /\ gitlabClient' = TRUE
            /\ mainPc' = "fsStart"
            /\ UNCHANGED <<exitCode, output>>
    /\ UNCHANGED <<config, args, gitClientParam, gitClient, fsStarted, convVars, fetchVars, queueVars>>

\* fs.Start: serves until unmounted, or fails to mount.
StartFS ==
    /\ mainPc = "fsStart"
    /\ fsStarted' = TRUE
    /\ \/ Exit(1, "fs.Start failed")
       \/ mainPc' = "serving" /\ UNCHANGED <<exitCode, output>>
    /\ UNCHANGED <<config, args, gitClientParam, gitClient, gitlabClientParam,
                   gitlabClient, convVars, fetchVars, queueVars>>

\* While serving, the gitlab client converts the remote projects it lists.
Convert ==
    /\ mainPc = "serving"
    /\ \E gp \in GitlabProjects :
        /\ gitlabProject' = <<gp>>
        /\ project' = <<newProjectFromGitlabProject(gitlabClientParam[1], gp)>>
    /\ UNCHANGED <<mainVars, fetchVars, queueVars>>

MainNext ==
    \/ LoadConfig
    \/ ConfigureMountpoint
    \/ CreateGitClient
    \/ CreateGitlabClient
    \/ StartFS
    \/ Convert

\* ------------------------------------------------------ claims about main
\* A configuration the startup sequence is meant to reject.
ConfigError(cfg) ==
    \/ cfg.PullMethod \notin {"http", "ssh"}
    \/ cfg.OnClone \notin {"init", "clone"}
    \/ cfg.QueueSize <= 0

ConfigErrorMessages ==
    ({makeGitlabConfig(cfg).err : cfg \in Configs} \cup
     {makeGitConfig(cfg).err : cfg \in Configs}) \ {""}

\* C5: a configuration with an invalid pull_method, an invalid on_clone or a
\* queue size <= 0 never reaches fs.Start, and when main has exited it has
\* exited with a non-zero status and a message.
C5_ConfigErrorFatal ==
    (config # <<>> /\ ConfigError(config[1])) =>
        /\ ~fsStarted
        /\ (mainPc = "exit" => exitCode # 0 /\ output # "")

\* C6: when main exits on a configuration error, neither the git client nor
\* the gitlab client has been constructed and the filesystem was not started.
C6_ValidationPrecedesConstruction ==
    (mainPc = "exit" /\ output \in ConfigErrorMessages) =>
        /\ ~gitClient
        /\ ~gitlabClient
        /\ ~fsStarted

\* C8: the converted project's DefaultBranch is the remote default branch
\* when that is non-empty and "master" when it is empty, it is never empty,
\* and ID and Name are the remote id and path.
C8_DefaultBranchFallback ==
    project # <<>> =>
        LET gp == gitlabProject[1]
            p == project[1]
        IN  /\ (gp.DefaultBranch # "" => p.DefaultBranch = gp.DefaultBranch)
            /\ (gp.DefaultBranch = "" => p.DefaultBranch = "master")
            /\ p.DefaultBranch # ""
            /\ p.ID = gp.ID
            /\ p.Name = gp.Path

C8_Witness ==
    /\ project # <<>>
    /\ gitlabProject[1].DefaultBranch = ""
    /\ project[1].DefaultBranch = "master"

SpecMain == MainInit /\ [][MainNext]_vars

Spec == FetchInit /\ [][FetchNext]_vars

SpecQueue == QueueInit /\ [][QueueNext]_vars

\* While a call is in progress some goroutine in a call runs on: the remote
\* answers its request, or it stores its content.
SpecLive ==
    /\ FetchInitDefault
    /\ [][FetchNextNoFail]_vars
    /\ WF_vars(\E c \in Callers : ListPage(c, FALSE) \/ Store(c))
====
